---- MODULE Spec2Model ----
(***************************************************************************)
(* Model of compdb (src/compdb/compdb.cc): the tool that turns the output  *)
(* of `plz query graph` into compile_commands.json.                        *)
(*                                                                         *)
(* Strings are sequences of one-character strings, so that find, rfind,    *)
(* find_last_not_of, resize and replace act on characters as std::string   *)
(* does.  Indices returned by the string operators are 0-based as in C++;  *)
(* npos is -1, so that npos + 1 = 0 as with size_t wrap-around.            *)
(* JSON objects are records: contains(key) is key \in DOMAIN.  JSON arrays  *)
(* are sequences.  The empty function <<>> is the value of null, of the    *)
(* empty object, of the empty array and of the empty string; a document    *)
(* carries the kind of its top-level value beside the value.               *)
(***************************************************************************)
EXTENDS Integers, Sequences, FiniteSets, TLC

VARIABLES pc, err, dir, genDir, obuf, graph, out, origin, pi, ti, si, cmd,
          artifact, writes, fstate

vars == <<pc, err, dir, genDir, obuf, graph, out, origin, pi, ti, si, cmd,
          artifact, writes, fstate>>

(***************************************************************************)
(* Bounds of the explored inputs.                                          *)
(***************************************************************************)
\* largest number of packages in a graph document
MaxPkgs == 2
\* largest total number of targets in a graph document
MaxTargets == 2

(***************************************************************************)
(* String literals of compdb.cc.                                           *)
(***************************************************************************)
TOOLS_CC == <<"$","T","O","O","L","S","_","C","C">>
SRCS_SRCS == <<"$","{","S","R","C","S","_","S","R","C","S","}">>
StepSep == <<" ","&","&"," ">>
TrimChars == {" "}
GenSuffix == <<"/","p","l","z","-","o","u","t","/","g","e","n">>
Slash == <<"/">>
npos == -1

(***************************************************************************)
(* std::string operations used by compdb.cc.                               *)
(***************************************************************************)
\* s.substr(pos, n) for pos + n <= s.size()
substr(s, pos, n) == SubSeq(s, pos + 1, pos + n)

\* does sub occur in s at 0-based index i
MatchAt(s, sub, i) ==
  /\ i >= 0
  /\ i + Len(sub) <= Len(s)
  /\ substr(s, i, Len(sub)) = sub

\* s.find(sub): index of the first occurrence, npos if there is none
find(s, sub) ==
  LET hits == {i \in 0..Len(s) : MatchAt(s, sub, i)}
  IN  IF hits = {} THEN npos
      ELSE CHOOSE i \in hits : \A j \in hits : i <= j

\* s.rfind(sub, 0): the last occurrence that starts at or before index 0
rfind0(s, sub) == IF MatchAt(s, sub, 0) THEN 0 ELSE npos

\* s.find_last_not_of(chars): index of the last character outside chars
find_last_not_of(s, chars) ==
  LET keep == {i \in 0..(Len(s) - 1) : s[i + 1] \notin chars}
  IN  IF keep = {} THEN npos
      ELSE CHOOSE i \in keep : \A j \in keep : j <= i

\* s.resize(n) for n <= s.size()
resize(s, n) == SubSeq(s, 1, n)

\* in.replace(idx, before.size(), after) at the last occurrence of before
replaceLast(in, before, after) ==
  LET hits == {i \in 0..Len(in) : MatchAt(in, before, i)}
      idx == CHOOSE i \in hits : \A j \in hits : j <= i
  IN  IF hits = {} THEN in
      ELSE substr(in, 0, idx) \o after
             \o substr(in, idx + Len(before), Len(in) - idx - Len(before))

\* replace(in, before, after): the first occurrence of before becomes after
replace(in, before, after) ==
  LET idx == find(in, before)
  IN  IF idx = npos THEN in
      ELSE substr(in, 0, idx) \o after
             \o substr(in, idx + Len(before), Len(in) - idx - Len(before))

(***************************************************************************)
(* nlohmann::json accessors as compdb.cc uses them.                        *)
(***************************************************************************)
\* j.contains(key)
contains(j, key) == key \in DOMAIN j

\* the array that the loop of line 38 iterates; null has no elements
PackagesOf(g) == IF contains(g, "packages") THEN g.packages ELSE <<>>

\* g after line 38 evaluated g["packages"]: operator[] on the non-const json
\* turns null into an object and inserts a missing key with the value null
IndexPackages(g) ==
  IF contains(g, "packages") THEN g
  ELSE [k \in DOMAIN g \cup {"packages"} |->
          IF k = "packages" THEN <<>> ELSE g[k]]

\* a parse that accepts every document
ParseOkAlways(doc) == TRUE

\* line 35: json::parse accepts the document
ParseOk(doc) == doc.wellFormed

\* line 38: operator[] with a string key works on an object and on null, and
\* throws type_error.305 on a value of any other kind
KeyIndexable(doc) == doc.kind \in {"object", "null"}

\* the guard of line 42
HasCommandAndSrcs(target) ==
  /\ contains(target, "command")
  /\ contains(target, "srcs")
  /\ contains(target.srcs, "srcs")

\* the prefix test of line 44, mutated to a substring test
ContainsToolsCC(c) == find(c, TOOLS_CC) # npos

\* the prefix test of line 44
StartsWithToolsCC(c) == rfind0(c, TOOLS_CC) = 0

\* lines 46-50 trimming newlines as well as spaces
TruncateTrimNewlines(c) ==
  LET idx == find(c, StepSep)
  IN  IF idx # npos
        THEN LET r == resize(c, idx)
             IN  resize(r, find_last_not_of(r, {" ", "\n"}) + 1)
        ELSE c

\* lines 46-50: cut at the first " && " and drop the spaces before it
Truncate(c) ==
  LET idx == find(c, StepSep)
  IN  IF idx # npos
        THEN LET r == resize(c, idx)
             IN  resize(r, find_last_not_of(r, TrimChars) + 1)
        ELSE c

\* target["tools"]["cc"][0] is defined only when the list has an element
HasTool(target) ==
  /\ contains(target, "tools")
  /\ contains(target.tools, "cc")
  /\ Len(target.tools.cc) > 0

LastTool(target) == target.tools.cc[Len(target.tools.cc)]

\* target["tools"]["cc"][0]
FirstTool(target) == target.tools.cc[1]

\* lines 53-54 without the compiler substitution
ResolveSrcOnly(c, src, tool) == replace(c, SRCS_SRCS, src)

\* lines 53-54 replacing the last occurrences
ResolveLast(c, src, tool) ==
  replaceLast(replaceLast(c, SRCS_SRCS, src), TOOLS_CC, tool)

\* lines 53-54
Resolve(c, src, tool) == replace(replace(c, SRCS_SRCS, src), TOOLS_CC, tool)

\* lines 55-59
Entry(d, c, f) == [directory |-> d, command |-> c, file |-> f]

\* an emplace_back that skips an entry already present
emplace_back_unique(arr, j) ==
  IF \E i \in 1..Len(arr) : arr[i] = j THEN arr ELSE Append(arr, j)

\* an emplace_back at the front
emplace_front(arr, j) == <<j>> \o arr

\* out.emplace_back(j)
emplace_back(arr, j) == Append(arr, j)

(***************************************************************************)
(* Inputs: the working directory, and the documents `plz query graph` can  *)
(* print.  A target is a JSON object with some of the keys command, srcs   *)
(* and tools; every package carries a targets array.                       *)
(***************************************************************************)
Cwd == <<"/","r">>
\* a byte that is not valid UTF-8 (0xFF), which a directory name may hold
InvalidByte == "<ff>"
CwdRaw == <<"/","r",InvalidByte>>
Cwds == {Cwd, CwdRaw}
SrcA == <<"a",".","c">>
SrcB == <<"b",".","c">>
\* a source file whose name contains the compiler token
SrcTok == <<"d","/">> \o TOOLS_CC
ToolG == <<"g","+","+">>
ToolK == <<"k","c","c">>

\* one compile step, archived afterwards; two spaces before the separator
CmdStd == TOOLS_CC \o <<" ","-","c"," ">> \o SRCS_SRCS \o <<" "," ","&","&"," ","a","r">>
\* no separator, and a trailing space and newline
CmdNoSep == TOOLS_CC \o <<" ">> \o SRCS_SRCS \o <<" ","\n">>
\* both placeholders twice, then a newline and spaces before the separator
CmdDup == TOOLS_CC \o <<" ">> \o SRCS_SRCS \o <<" ">> \o SRCS_SRCS \o <<" ">> \o TOOLS_CC
            \o <<"\n"," "," ","&","&"," ","x">>
\* an archive step that only mentions the compiler
CmdAr == <<"a","r"," ">> \o TOOLS_CC \o <<" ">> \o SRCS_SRCS
\* the bare compiler
CmdBare == TOOLS_CC

Srcs(l) == [srcs |-> l]
Tools(l) == [cc |-> l]

Targets ==
  { [command |-> CmdStd, srcs |-> Srcs(<<SrcA, SrcB>>), tools |-> Tools(<<ToolG, ToolK>>)],
    [command |-> CmdNoSep, srcs |-> Srcs(<<SrcTok, SrcTok>>), tools |-> Tools(<<ToolK>>)],
    [command |-> CmdDup, srcs |-> Srcs(<<SrcA>>), tools |-> Tools(<<ToolG>>)],
    [command |-> CmdAr, srcs |-> Srcs(<<SrcA>>), tools |-> Tools(<<ToolG>>)],
    [srcs |-> Srcs(<<SrcA>>), tools |-> Tools(<<ToolG>>)],
    [command |-> CmdStd, srcs |-> [hdrs |-> <<SrcA>>], tools |-> Tools(<<ToolG>>)],
    [command |-> CmdBare, srcs |-> Srcs(<<>>)],
    [command |-> CmdStd, srcs |-> Srcs(<<SrcB>>), tools |-> Tools(<<>>)],
    [command |-> CmdStd, srcs |-> Srcs(<<SrcA>>)] }

RECURSIVE SumTo(_, _)
SumTo(f, n) == IF n = 0 THEN 0 ELSE f[n] + SumTo(f, n - 1)

\* the packages array whose i-th package holds the next sz[i] targets of flat
Pack(flat, sz) ==
  [i \in 1..Len(sz) |->
     [targets |-> SubSeq(flat, SumTo(sz, i - 1) + 1, SumTo(sz, i))]]

PackageSeqs ==
  { Pack(flat, sz) :
      <<flat, sz>> \in UNION { UNION { { <<f, z>> :
                  f \in [1..n -> Targets],
                  z \in {y \in [1..p -> 0..n] : SumTo(y, p) = n} } :
                n \in 0..MaxTargets } : p \in 0..MaxPkgs } }

\* a malformed document; null, {}, [] and ""; {"version": "1"}; and the graphs
Documents ==
  { [wellFormed |-> FALSE, kind |-> "invalid", value |-> <<>>],
    [wellFormed |-> TRUE, kind |-> "null", value |-> <<>>],
    [wellFormed |-> TRUE, kind |-> "object", value |-> <<>>],
    [wellFormed |-> TRUE, kind |-> "array", value |-> <<>>],
    [wellFormed |-> TRUE, kind |-> "string", value |-> <<>>],
    [wellFormed |-> TRUE, kind |-> "object", value |-> [version |-> <<"1">>]] }
  \cup { [wellFormed |-> TRUE, kind |-> "object", value |-> [packages |-> pk]] :
           pk \in PackageSeqs }

\* what a read through an absent tool entry can yield when it does not crash:
\* one value stands for whatever string the stray read produces
Garbage == { <<"?">> }

\* content of compile_commands.json left by an earlier run
\* A file is the entries it holds in full, and whether the array is closed.
Prior ==
  [entries |-> << [directory |-> <<"o">>, command |-> <<"o">>, file |-> <<"o">>] >>,
   closed |-> TRUE]

\* the file as f.open leaves it
EmptyFile == [entries |-> <<>>, closed |-> FALSE]

\* the file that holds the whole array, closing bracket included
FullFile(arr) == [entries |-> arr, closed |-> TRUE]

\* the file when the stream stopped taking bytes after k whole entries
CutFile(arr, k) == [entries |-> SubSeq(arr, 1, k), closed |-> FALSE]

\* a string the serializer rejects with type_error.316
HasInvalidUtf8(str) == \E k \in 1..Len(str) : str[k] = InvalidByte

\* operator<< dumps the array entry by entry and throws at the first
\* string that is not UTF-8
DumpThrows(arr) ==
  \E i \in 1..Len(arr) :
    \/ HasInvalidUtf8(arr[i].command)
    \/ HasInvalidUtf8(arr[i].directory)
    \/ HasInvalidUtf8(arr[i].file)

(***************************************************************************)
(* The run of main().                                                      *)
(***************************************************************************)
Init ==
  /\ pc = "getcwd"
  /\ err = "none"
  /\ dir = <<>>
  /\ genDir = <<>>
  /\ obuf = [wellFormed |-> FALSE, kind |-> "invalid", value |-> <<>>]
  /\ graph = <<>>
  /\ out = <<>>
  /\ origin = <<>>
  /\ pi = 1
  /\ ti = 1
  /\ si = 1
  /\ cmd = <<>>
  /\ artifact = Prior
  /\ writes = 0
  /\ fstate = "unopened"

\* lines 26-32: getcwd fails, or yields the bytes of the directory name
GetCwd ==
  /\ pc = "getcwd"
  /\ \/ /\ pc' = "exit1"
        /\ err' = "getcwd"
        /\ UNCHANGED <<dir, genDir>>
     \/ /\ \E d \in Cwds : dir' = d /\ genDir' = d \o GenSuffix
        /\ pc' = "query"
        /\ UNCHANGED err
  /\ UNCHANGED <<obuf, graph, out, origin, pi, ti, si, cmd, artifact, writes, fstate>>

\* line 34: check_output throws when plz cannot be run or exits non-zero
Query ==
  /\ pc = "query"
  /\ \/ /\ pc' = "terminated"
        /\ err' = "ExternalToolFailure"
        /\ UNCHANGED obuf
     \/ /\ \E doc \in Documents : obuf' = doc
        /\ pc' = "parse"
        /\ UNCHANGED err
  /\ UNCHANGED <<dir, genDir, graph, out, origin, pi, ti, si, cmd, artifact, writes, fstate>>

\* the first target at or after (p, t); p = Len(pkgs) + 1 when there is none
RECURSIVE Skip(_, _, _)
Skip(pkgs, p, t) ==
  IF p > Len(pkgs) THEN <<p, 1>>
  ELSE IF t > Len(pkgs[p].targets) THEN Skip(pkgs, p + 1, 1)
  ELSE <<p, t>>

\* lines 38-39 and 64-65: continue at the next target, or leave the loops
MoveTo(pkgs, p, t) ==
  LET pos == Skip(pkgs, p, t)
  IN  /\ pi' = pos[1]
      /\ ti' = pos[2]
      /\ pc' = IF pos[1] > Len(pkgs) THEN "write" ELSE "loop"

\* lines 35-38: json::parse throws parse_error on a malformed document
Parse ==
  /\ pc = "parse"
  /\ IF ~ParseOk(obuf)
       THEN /\ pc' = "terminated"
            /\ err' = "ParseError"
            /\ UNCHANGED <<graph, out, pi, ti>>
       ELSE IF ~KeyIndexable(obuf)
         THEN /\ graph' = obuf.value
              /\ out' = <<>>
              /\ pc' = "terminated"
              /\ err' = "type_error.305"
              /\ UNCHANGED <<pi, ti>>
         ELSE /\ graph' = IndexPackages(obuf.value)
              /\ out' = <<>>
              /\ MoveTo(PackagesOf(IndexPackages(obuf.value)), 1, 1)
              /\ UNCHANGED err
  /\ UNCHANGED <<dir, genDir, obuf, origin, si, cmd, artifact, writes, fstate>>

\* the target the loops stand at
Target(p, t) == PackagesOf(graph)[p].targets[t]

\* lines 39-51: examine one target
NextTarget ==
  /\ pc = "loop"
  /\ LET target == Target(pi, ti)
     IN  IF HasCommandAndSrcs(target) /\ StartsWithToolsCC(target.command)
           THEN /\ cmd' = Truncate(target.command)
                /\ IF Len(target.srcs.srcs) > 0
                     THEN /\ si' = 1
                          /\ pc' = "srcs"
                          /\ UNCHANGED <<pi, ti>>
                     ELSE /\ MoveTo(PackagesOf(graph), pi, ti + 1)
                          /\ UNCHANGED si
           ELSE /\ MoveTo(PackagesOf(graph), pi, ti + 1)
                /\ UNCHANGED <<cmd, si>>
  /\ UNCHANGED <<err, dir, genDir, obuf, graph, out, origin, artifact, writes, fstate>>

\* lines 51-61 for one source, writing the array out after every entry
EmitEntryAndFlush ==
  /\ pc = "srcs"
  /\ LET target == Target(pi, ti)
         src == target.srcs.srcs[si]
         c == Resolve(cmd, src, FirstTool(target))
     IN  /\ HasTool(target)
         /\ out' = emplace_back(out, Entry(genDir, c, dir \o Slash \o src))
         /\ artifact' = FullFile(out')
         /\ writes' = writes + 1
         /\ UNCHANGED fstate
         /\ origin' = Append(origin, <<pi, ti, si>>)
         /\ IF si < Len(target.srcs.srcs)
              THEN /\ si' = si + 1
                   /\ UNCHANGED <<pc, pi, ti>>
              ELSE /\ MoveTo(PackagesOf(graph), pi, ti + 1)
                   /\ UNCHANGED si
         /\ UNCHANGED err
  /\ UNCHANGED <<dir, genDir, obuf, graph, cmd>>

\* lines 51-61 for one source.  Reading target["tools"]["cc"][0] when the
\* key or the element is absent is undefined: the run crashes, or goes on
\* with whatever the read yields.
EmitEntry ==
  /\ pc = "srcs"
  /\ LET target == Target(pi, ti)
         src == target.srcs.srcs[si]
     IN  \/ /\ ~HasTool(target)
            /\ pc' = "terminated"
            /\ err' = "ToolLookup"
            /\ UNCHANGED <<out, origin, pi, ti, si>>
         \/ /\ \E tool \in (IF HasTool(target) THEN {FirstTool(target)} ELSE Garbage) :
                 out' = emplace_back(out, Entry(genDir, Resolve(cmd, src, tool),
                                                dir \o Slash \o src))
            /\ origin' = Append(origin, <<pi, ti, si>>)
            /\ IF si < Len(target.srcs.srcs)
                 THEN /\ si' = si + 1
                      /\ UNCHANGED <<pc, pi, ti>>
                 ELSE /\ MoveTo(PackagesOf(graph), pi, ti + 1)
                      /\ UNCHANGED si
            /\ UNCHANGED err
  /\ UNCHANGED <<dir, genDir, obuf, graph, cmd, artifact, writes, fstate>>

\* lines 66-67: f.open either fails, leaving the file alone and the stream
\* in a failed state that nothing tests, or truncates the file
OpenFile ==
  /\ pc = "write"
  /\ \/ /\ fstate' = "fail"
        /\ UNCHANGED <<artifact, writes>>
     \/ /\ fstate' = "good"
        /\ artifact' = EmptyFile
        /\ writes' = writes + 1
  /\ pc' = "stream"
  /\ UNCHANGED <<err, dir, genDir, obuf, graph, out, origin, pi, ti, si, cmd>>

\* lines 68-70: the array is dumped into the stream whatever its state.  The
\* dump throws on a string that is not UTF-8; a failed stream drops the
\* bytes; a good one takes them all, or stops after some of them (file size
\* limit, full disk): inside the array, or after its closing bracket and
\* before the newline of std::endl.  The run is then killed by SIGXFSZ or
\* returns 0 with the stream failed.
StreamOut ==
  /\ pc = "stream"
  /\ IF DumpThrows(out)
       THEN /\ pc' = "terminated"
            /\ err' = "type_error.316"
            /\ UNCHANGED <<artifact, fstate>>
       ELSE IF fstate = "fail"
         THEN /\ pc' = "done"
              /\ UNCHANGED <<err, artifact, fstate>>
         ELSE \/ /\ artifact' = FullFile(out)
                 /\ pc' = "done"
                 /\ UNCHANGED <<err, fstate>>
              \/ /\ \/ \E k \in 0..Len(out) : artifact' = CutFile(out, k)
                    \/ artifact' = FullFile(out)
                 /\ \/ /\ pc' = "done"
                       /\ fstate' = "fail"
                       /\ UNCHANGED err
                    \/ /\ pc' = "terminated"
                       /\ err' = "SIGXFSZ"
                       /\ UNCHANGED fstate
  /\ UNCHANGED <<dir, genDir, obuf, graph, out, origin, pi, ti, si, cmd, writes>>

Next == GetCwd \/ Query \/ Parse \/ NextTarget \/ EmitEntry \/ OpenFile \/ StreamOut

Spec == Init /\ [][Next]_vars

TypeOK ==
  /\ pc \in {"getcwd", "query", "parse", "loop", "srcs", "write", "stream",
             "done", "exit1", "terminated"}
  /\ err \in {"none", "getcwd", "ExternalToolFailure", "ParseError", "ToolLookup",
              "type_error.305", "type_error.316", "SIGXFSZ"}
  /\ fstate \in {"unopened", "good", "fail"}
  /\ writes \in Nat
  /\ Len(out) = Len(origin)

(***************************************************************************)
(* Vocabulary of the properties, stated on strings and on the graph        *)
(* without the operators of the program.                                   *)
(***************************************************************************)
BeginsWith(s, p) == Len(s) >= Len(p) /\ SubSeq(s, 1, Len(p)) = p

OccursAt(s, p, k) == k >= 1 /\ k + Len(p) - 1 <= Len(s) /\ SubSeq(s, k, k + Len(p) - 1) = p

Occurrences(s, p) == {k \in 1..Len(s) : OccursAt(s, p, k)}

Occurs(s, p) == Occurrences(s, p) # {}

FirstOcc(s, p) == CHOOSE k \in Occurrences(s, p) : \A m \in Occurrences(s, p) : k <= m

PrefixBefore(s, p) == SubSeq(s, 1, FirstOcc(s, p) - 1)

\* s without its trailing characters of chars
RTrim(s, chars) ==
  LET n == CHOOSE k \in 0..Len(s) :
             /\ \A m \in (k + 1)..Len(s) : s[m] \in chars
             /\ (k > 0 => s[k] \notin chars)
  IN  SubSeq(s, 1, n)

\* s with the first occurrence of p, if any, replaced by r
FirstReplaced(s, p, r) ==
  IF Occurs(s, p)
    THEN LET k == FirstOcc(s, p)
         IN  SubSeq(s, 1, k - 1) \o r \o SubSeq(s, k + Len(p), Len(s))
    ELSE s

Dollars(s) == {k \in 1..Len(s) : s[k] = "$"}

\* positions <<package, target>> of the parsed graph
Positions ==
  UNION { { <<p, t>> : t \in 1..Len(PackagesOf(graph)[p].targets) } :
          p \in 1..Len(PackagesOf(graph)) }

At(pos) == PackagesOf(graph)[pos[1]].targets[pos[2]]

HasCommand(t) == "command" \in DOMAIN t

HasSources(t) == "srcs" \in DOMAIN t /\ "srcs" \in DOMAIN t.srcs

HasCompiler(t) == "tools" \in DOMAIN t /\ "cc" \in DOMAIN t.tools /\ t.tools.cc # <<>>

Compilable(t) ==
  /\ HasCommand(t)
  /\ BeginsWith(t.command, TOOLS_CC)
  /\ HasSources(t)
  /\ t.srcs.srcs # <<>>

\* the indices of the entries emitted for the target at pos
EntriesOf(pos) == {i \in 1..Len(origin) : <<origin[i][1], origin[i][2]>> = pos}

SourceOf(i) == At(origin[i]).srcs.srcs[origin[i][3]]

FileOf(src) == dir \o <<"/">> \o src

LexLess(a, b) ==
  \/ a[1] < b[1]
  \/ a[1] = b[1] /\ a[2] < b[2]
  \/ a[1] = b[1] /\ a[2] = b[2] /\ a[3] < b[3]

\* the parsed graph is in place
Parsed ==
  \/ pc \in {"loop", "srcs", "write", "stream", "done"}
  \/ pc = "terminated" /\ err = "ToolLookup"

\* the loops over the graph have run to their end
LoopsDone ==
  \/ pc \in {"write", "stream", "done"}
  \/ pc = "terminated" /\ err \in {"type_error.316", "SIGXFSZ"}

\* the run returned 0 and the stream never failed
Written == pc = "done" /\ fstate = "good"

RECURSIVE SumSources(_)
SumSources(ps) ==
  IF ps = {} THEN 0
  ELSE LET pos == CHOOSE x \in ps : TRUE
       IN  Len(At(pos).srcs.srcs) + SumSources(ps \ {pos})

(***************************************************************************)
(* C1. Filtering law: a target whose command does not begin with           *)
(* $TOOLS_CC is the origin of no entry, whatever its source list; the      *)
(* array built by the loops, and the artifact the run wrote, hold no more  *)
(* entries than the targets whose command begins with $TOOLS_CC have       *)
(* sources.                                                                *)
(***************************************************************************)
C1_Filtering ==
  LET limit == SumSources({pos \in Positions :
                             /\ HasCommand(At(pos)) /\ HasSources(At(pos))
                             /\ BeginsWith(At(pos).command, TOOLS_CC)})
  IN  /\ \A pos \in Positions :
           (HasCommand(At(pos)) /\ ~BeginsWith(At(pos).command, TOOLS_CC))
             => EntriesOf(pos) = {}
      /\ LoopsDone => Len(out) <= limit
      /\ writes > 0 => Len(artifact.entries) <= limit

C1_Witness ==
  /\ Written
  /\ Len(artifact.entries) > 0
  /\ \E pos \in Positions :
       /\ HasCommand(At(pos)) /\ HasSources(At(pos))
       /\ ~BeginsWith(At(pos).command, TOOLS_CC)
       /\ Occurs(At(pos).command, TOOLS_CC)
       /\ At(pos).srcs.srcs # <<>>

(***************************************************************************)
(* C2. Count law: when the loops are done, every compilable target with N  *)
(* sources is the origin of exactly N entries of the output array, one     *)
(* per source index, each with that source's file and the one directory;   *)
(* entries for equal sources of a target with a compiler path are equal;   *)
(* the array holds as many entries as the compilable targets have          *)
(* sources, identical entries included; and a write that went through      *)
(* leaves exactly that array in the artifact.                              *)
(***************************************************************************)
C2_CountLaw ==
  /\ LoopsDone =>
       /\ Len(out) = Len(origin)
       /\ Len(out) = SumSources({pos \in Positions : Compilable(At(pos))})
       /\ \A pos \in Positions :
            Compilable(At(pos)) =>
              LET N == Len(At(pos).srcs.srcs)
              IN  /\ Cardinality(EntriesOf(pos)) = N
                  /\ \A s \in 1..N :
                       \E i \in EntriesOf(pos) :
                         /\ origin[i][3] = s
                         /\ out[i].file = FileOf(At(pos).srcs.srcs[s])
                         /\ out[i].directory = genDir
                  /\ \A i, j \in EntriesOf(pos) :
                       (HasCompiler(At(pos)) /\ SourceOf(i) = SourceOf(j))
                         => out[i] = out[j]
  /\ Written =>
       Len(artifact.entries) = SumSources({pos \in Positions : Compilable(At(pos))})

C2_Witness ==
  /\ Written
  /\ \E pos \in Positions :
       /\ Compilable(At(pos))
       /\ Len(At(pos).srcs.srcs) = 2
  /\ \E i, j \in 1..Len(artifact.entries) :
       i # j /\ artifact.entries[i] = artifact.entries[j]

(***************************************************************************)
(* C3. Ordering guarantee: entries appear in the order of their            *)
(* (package, target, source) indices, each entry carries the file of the   *)
(* source at its indices, every source of a compilable target has its      *)
(* entry once the loops are done, and a write that went through leaves     *)
(* the array in that order in the artifact.                                *)
(***************************************************************************)
C3_Ordering ==
  /\ Len(out) = Len(origin)
  /\ \A i, j \in 1..Len(origin) : i < j => LexLess(origin[i], origin[j])
  /\ \A i \in 1..Len(out) :
       /\ origin[i][3] \in 1..Len(At(origin[i]).srcs.srcs)
       /\ out[i].file = FileOf(SourceOf(i))
  /\ LoopsDone =>
       \A pos \in Positions :
         Compilable(At(pos)) =>
           \A s \in 1..Len(At(pos).srcs.srcs) :
             \E i \in 1..Len(origin) : origin[i] = <<pos[1], pos[2], s>>
  /\ Written => (artifact.closed /\ artifact.entries = out)

C3_Witness ==
  /\ Written
  /\ \E i, j, k \in 1..Len(artifact.entries) :
       /\ i < j /\ j < k
       /\ origin[i][1] = origin[j][1] /\ origin[i][2] = origin[j][2]
       /\ origin[j][1] < origin[k][1]
       /\ artifact.entries[i].file # artifact.entries[j].file
       /\ artifact.entries[j].file # artifact.entries[k].file

(***************************************************************************)
(* The command template of a target as the program cuts it: the part       *)
(* before the first step separator without its trailing spaces, or the     *)
(* whole command when it has no separator.                                 *)
(***************************************************************************)
CutTemplate(c) ==
  IF Occurs(c, StepSep) THEN RTrim(PrefixBefore(c, StepSep), {" "}) ELSE c

\* the same with the right-trim of spaces and newlines applied in both cases
TrimmedTemplate(c) ==
  IF Occurs(c, StepSep) THEN RTrim(PrefixBefore(c, StepSep), {" ", "\n"})
  ELSE RTrim(c, {" ", "\n"})

(***************************************************************************)
(* C4 as stated. Truncation law: the command of a compilable target        *)
(* before placeholder resolution is the part before the first separator,   *)
(* or the whole command, with all trailing spaces and newlines removed in  *)
(* both cases.                                                             *)
(***************************************************************************)
C4_TruncationAsStated ==
  pc = "srcs" => cmd = TrimmedTemplate(At(<<pi, ti>>).command)

(***************************************************************************)
(* C4 amended. The command of a compilable target before placeholder       *)
(* resolution is: when the command contains the separator, the part        *)
(* before its first occurrence with the trailing spaces (not newlines)     *)
(* removed; otherwise the whole command, unchanged.                        *)
(***************************************************************************)
C4_Truncation ==
  pc = "srcs" =>
    /\ Compilable(At(<<pi, ti>>))
    /\ cmd = CutTemplate(At(<<pi, ti>>).command)

C4_Witness ==
  /\ pc = "srcs"
  /\ Occurs(At(<<pi, ti>>).command, StepSep)
  /\ cmd # PrefixBefore(At(<<pi, ti>>).command, StepSep)
  /\ cmd # TrimmedTemplate(At(<<pi, ti>>).command)

(***************************************************************************)
(* C5 as stated. Placeholder-resolution law: no emitted command contains   *)
(* ${SRCS_SRCS} or $TOOLS_CC.                                              *)
(***************************************************************************)
C5_NoPlaceholderAsStated ==
  \A i \in 1..Len(out) :
    /\ ~Occurs(out[i].command, SRCS_SRCS)
    /\ ~Occurs(out[i].command, TOOLS_CC)

\* a template with each placeholder at most once and no other dollar sign,
\* bound to a source and a compiler path without dollar signs
CleanBinding(t, src) ==
  LET tt == CutTemplate(t.command)
  IN  /\ HasCompiler(t)
      /\ Cardinality(Occurrences(tt, TOOLS_CC)) <= 1
      /\ Cardinality(Occurrences(tt, SRCS_SRCS)) <= 1
      /\ Dollars(tt) = Occurrences(tt, TOOLS_CC) \cup Occurrences(tt, SRCS_SRCS)
      /\ Dollars(src) = {}
      /\ Dollars(t.tools.cc[1]) = {}

(***************************************************************************)
(* C5 amended. The command of an emitted entry contains neither            *)
(* placeholder when the cut template of its target contains each           *)
(* placeholder at most once and no other dollar sign, and neither the      *)
(* source nor the first cc tool path contains a dollar sign.               *)
(***************************************************************************)
C5_NoPlaceholder ==
  \A i \in 1..Len(out) :
    CleanBinding(At(origin[i]), SourceOf(i)) =>
      /\ ~Occurs(out[i].command, SRCS_SRCS)
      /\ ~Occurs(out[i].command, TOOLS_CC)

C5_Witness ==
  \E i \in 1..Len(out) :
    /\ CleanBinding(At(origin[i]), SourceOf(i))
    /\ Occurs(At(origin[i]).command, SRCS_SRCS)
    /\ Occurs(out[i].command, SourceOf(i))
    /\ Occurs(out[i].command, At(origin[i]).tools.cc[1])

\* the cut template with the first ${SRCS_SRCS} bound to sourcePath, and
\* then the first $TOOLS_CC bound to toolPath
Normalized(c, toolPath, sourcePath) ==
  FirstReplaced(FirstReplaced(CutTemplate(c), SRCS_SRCS, sourcePath),
                TOOLS_CC, toolPath)

(***************************************************************************)
(* C6 as stated. Command binding: the command of an entry is its target's  *)
(* command normalized with the first cc tool path and with the entry's     *)
(* own file value, repository root + "/" + source, as the source path.     *)
(***************************************************************************)
C6_BindingAsStated ==
  \A i \in 1..Len(out) :
    HasCompiler(At(origin[i])) =>
      out[i].command =
        Normalized(At(origin[i]).command, At(origin[i]).tools.cc[1], out[i].file)

(***************************************************************************)
(* C6 amended. The command of an entry is its target's command normalized  *)
(* with the first cc tool path and with the source as the graph lists it   *)
(* (not the entry's file value) as the source path; further tool paths     *)
(* have no effect.                                                         *)
(***************************************************************************)
C6_Binding ==
  \A i \in 1..Len(out) :
    HasCompiler(At(origin[i])) =>
      out[i].command =
        Normalized(At(origin[i]).command, At(origin[i]).tools.cc[1], SourceOf(i))

C6_Witness ==
  \E i \in 1..Len(out) :
    /\ HasCompiler(At(origin[i]))
    /\ Len(At(origin[i]).tools.cc) > 1
    /\ At(origin[i]).tools.cc[1] # At(origin[i]).tools.cc[2]
    /\ Occurs(At(origin[i]).command, SRCS_SRCS)
    /\ out[i].file # SourceOf(i)

(***************************************************************************)
(* C7 as stated. Malformed targets are ignored: a target without command,  *)
(* without srcs.srcs or without a first cc tool path is the origin of no   *)
(* entry and raises no error, so once the graph is parsed the run does     *)
(* not fail.                                                               *)
(***************************************************************************)
C7_MalformedIgnored ==
  /\ \A pos \in Positions :
       (~HasCommand(At(pos)) \/ ~HasSources(At(pos)) \/ ~HasCompiler(At(pos)))
         => EntriesOf(pos) = {}
  /\ Parsed => (pc # "terminated" /\ err = "none")

\* the document has no top-level "packages" field
LacksPackages(doc) ==
  doc.kind \notin {"object", "null"} \/ "packages" \notin DOMAIN doc.value

\* the document has been through lines 35-38
PastParse ==
  pc \notin {"getcwd", "query", "parse", "exit1"} /\ err # "ExternalToolFailure"

(***************************************************************************)
(* C8 as stated. A document that is malformed, or well-formed without a    *)
(* top-level "packages" field, ends the run with the error of a document   *)
(* that is malformed or lacks the top-level structure, and the artifact    *)
(* unwritten.                                                              *)
(***************************************************************************)
C8_ParseErrorAsStated ==
  PastParse =>
    ((~obuf.wellFormed \/ LacksPackages(obuf))
       => /\ pc = "terminated"
          /\ err \in {"ParseError", "type_error.305"}
          /\ writes = 0
          /\ artifact = Prior)

(***************************************************************************)
(* C8 amended. A malformed document ends the run with ParseError and the   *)
(* artifact unwritten.  A well-formed document whose top-level value is    *)
(* neither an object nor null (an array, a string) ends the run at the     *)
(* lookup of "packages" with type_error.305, the artifact unwritten.  A    *)
(* well-formed object or null without a "packages" field raises no error:  *)
(* the lookup inserts a null "packages" into the graph, the loops visit    *)
(* nothing, the run goes on to the write with an empty array, and a write  *)
(* that goes through leaves an empty array in the artifact.                *)
(***************************************************************************)
C8_ParseError ==
  PastParse =>
    /\ ~obuf.wellFormed
         => /\ pc = "terminated"
            /\ err = "ParseError"
            /\ writes = 0
            /\ artifact = Prior
    /\ (obuf.wellFormed /\ obuf.kind \notin {"object", "null"})
         => /\ pc = "terminated"
            /\ err = "type_error.305"
            /\ out = <<>>
            /\ writes = 0
            /\ artifact = Prior
    /\ (obuf.wellFormed /\ obuf.kind \in {"object", "null"}
          /\ "packages" \notin DOMAIN obuf.value)
         => /\ LoopsDone
            /\ err \in {"none", "SIGXFSZ"}
            /\ "packages" \in DOMAIN graph
            /\ graph.packages = <<>>
            /\ out = <<>>
            /\ Written => (writes = 1 /\ artifact = [entries |-> <<>>, closed |-> TRUE])

C8_Witness ==
  /\ Written
  /\ obuf.wellFormed
  /\ obuf.kind = "object"
  /\ "version" \in DOMAIN obuf.value
  /\ "packages" \notin DOMAIN obuf.value
  /\ writes = 1
  /\ artifact = [entries |-> <<>>, closed |-> TRUE]

\* every source of every compilable target has its entry
AllProcessed ==
  \A pos \in Positions :
    Compilable(At(pos)) =>
      \A s \in 1..Len(At(pos).srcs.srcs) :
        \E i \in 1..Len(out) : origin[i] = <<pos[1], pos[2], s>>

\* the run failed before the write: getcwd, plz, the parse, or a target
FailedBeforeWrite ==
  err \in {"getcwd", "ExternalToolFailure", "ParseError", "type_error.305",
           "ToolLookup"}

\* the run is over
Ended == pc \in {"done", "exit1", "terminated"}

(***************************************************************************)
(* C9 as stated. All-or-nothing output: the artifact is written at most    *)
(* once and only after every package, target and source has been           *)
(* processed; a run that fails ends aborted with the artifact neither      *)
(* opened nor modified; so a run ends with the artifact as it was or       *)
(* holding the whole array, never only a part of it.                       *)
(***************************************************************************)
C9_AllOrNothingAsStated ==
  /\ writes <= 1
  /\ writes = 1 => AllProcessed
  /\ err # "none" => (pc \in {"exit1", "terminated"} /\ writes = 0 /\ artifact = Prior)
  /\ Ended => (artifact = Prior \/ artifact = [entries |-> out, closed |-> TRUE])

(***************************************************************************)
(* C9 amended. The artifact is opened at most once and only after every    *)
(* package, target and source has been processed; a run that fails before  *)
(* the write (working directory, orchestrator, parse, or a target) ends    *)
(* aborted with the artifact neither opened nor modified; a write that     *)
(* goes through leaves the whole array.  A failure of the write itself is  *)
(* not all-or-nothing: the artifact is then as it was, empty, or cut to a  *)
(* leading part of the array.                                              *)
(***************************************************************************)
C9_AllOrNothing ==
  /\ writes <= 1
  /\ writes = 0 => artifact = Prior
  /\ writes = 1 => (LoopsDone /\ pc # "write" /\ AllProcessed)
  /\ LoopsDone => (AllProcessed /\ ~FailedBeforeWrite)
  /\ FailedBeforeWrite =>
       (pc \in {"exit1", "terminated"} /\ writes = 0 /\ artifact = Prior)
  /\ pc \in {"exit1", "terminated"} => err # "none"
  /\ Written => artifact = [entries |-> out, closed |-> TRUE]
  /\ writes = 1 =>
       \/ artifact = [entries |-> out, closed |-> TRUE]
       \/ /\ ~artifact.closed
          /\ \E k \in 0..Len(out) : artifact.entries = SubSeq(out, 1, k)

C9_Witness ==
  /\ pc = "terminated"
  /\ err = "ToolLookup"
  /\ Len(out) > 0
  /\ artifact = Prior

(***************************************************************************)
(* C10. The command before resolution begins with $TOOLS_CC, so it is      *)
(* never empty, and every entry of a target with a first cc tool path has  *)
(* a command that begins with that path, also when the source path itself  *)
(* contains $TOOLS_CC.                                                     *)
(***************************************************************************)
C10_LeadingTool ==
  /\ pc = "srcs" => BeginsWith(cmd, TOOLS_CC)
  /\ \A i \in 1..Len(out) :
       HasCompiler(At(origin[i])) =>
         BeginsWith(out[i].command, At(origin[i]).tools.cc[1])

C10_Witness ==
  \E i \in 1..Len(out) :
    /\ HasCompiler(At(origin[i]))
    /\ Occurs(SourceOf(i), TOOLS_CC)
    /\ Occurs(At(origin[i]).command, SRCS_SRCS)
    /\ BeginsWith(out[i].command, At(origin[i]).tools.cc[1])
    /\ Occurs(out[i].command, TOOLS_CC)

====
